---- MODULE Spec2Model ----
(***************************************************************************)
(* A model of ldif_parser.py: the coroutine pipeline                       *)
(*     driver -> compile_report -> get_username -> get_fullname            *)
(* that turns an LDIF stream of netgroup records into report rows.         *)
(*                                                                         *)
(* A Python string is modelled as a sequence of one-character strings, so  *)
(* that strip, partition, split, startswith and the regular expression of  *)
(* get_username are computed character by character as the code does.      *)
(***************************************************************************)
EXTENDS Integers, Sequences, FiniteSets, TLC

(***************************************************************************)
(* Bounds of the model.                                                    *)
(***************************************************************************)
\* the number of lines the driver reads from the primary source in one run
MaxLines == 6
\* the longest input of the stand-alone decoder specification
MaxLen == 4

(***************************************************************************)
(* String primitives of Python used by the module.                         *)
(***************************************************************************)
\* str.strip() with no argument strips these (the vertical tab, which has no
\* TLA+ escape, is left out)
Whitespace == {" ", "\t", "\n", "\r", "\f"}

\* the character class [a-zA-Z0-9] of username_pattern
AlNum ==
  { "a", "b", "c", "d", "e", "f", "g", "h", "i", "j", "k", "l", "m",
    "n", "o", "p", "q", "r", "s", "t", "u", "v", "w", "x", "y", "z",
    "A", "B", "C", "D", "E", "F", "G", "H", "I", "J", "K", "L", "M",
    "N", "O", "P", "Q", "R", "S", "T", "U", "V", "W", "X", "Y", "Z",
    "0", "1", "2", "3", "4", "5", "6", "7", "8", "9" }

\* s[i:] for a 1-based i
Drop(s, i) == SubSeq(s, i, Len(s))

RECURSIVE lstrip(_)
\* str.lstrip(): drop leading whitespace
lstrip(s) ==
  IF s # <<>> /\ Head(s) \in Whitespace THEN lstrip(Tail(s)) ELSE s

RECURSIVE rstrip(_)
\* str.rstrip(): drop trailing whitespace
rstrip(s) ==
  IF s # <<>> /\ s[Len(s)] \in Whitespace
    THEN rstrip(SubSeq(s, 1, Len(s) - 1))
    ELSE s

\* str.strip()
strip(s) == rstrip(lstrip(s))

RECURSIVE find(_, _, _)
\* the least index >= i at which the character c occurs in s, 0 when none
find(s, c, i) ==
  IF i > Len(s) THEN 0
  ELSE IF s[i] = c THEN i
  ELSE find(s, c, i + 1)

\* str.partition(c) for a one-character separator: (head, sep, tail) around
\* the first occurrence, (s, '', '') when c does not occur
partition(s, c) ==
  LET k == find(s, c, 1)
  IN  IF k = 0 THEN << s, <<>>, <<>> >>
      ELSE << SubSeq(s, 1, k - 1), <<c>>, Drop(s, k + 1) >>

RECURSIVE split(_, _)
\* str.split(c) for a one-character separator: the list of the fields between
\* the occurrences of c, one more than there are occurrences
split(s, c) ==
  LET k == find(s, c, 1)
  IN  IF k = 0 THEN << s >>
      ELSE << SubSeq(s, 1, k - 1) >> \o split(Drop(s, k + 1), c)

\* str.startswith(p)
startswith(s, p) == Len(s) >= Len(p) /\ SubSeq(s, 1, Len(p)) = p

RECURSIVE AlNumRun(_, _)
\* the index just after the longest run of [a-zA-Z0-9] that starts at i
AlNumRun(s, i) ==
  IF i <= Len(s) /\ s[i] \in AlNum THEN AlNumRun(s, i + 1) ELSE i

RECURSIVE search_open_ended(_, _)
\* search for the pattern without its closing comma, ,([a-zA-Z0-9]+)
search_open_ended(s, i) ==
  IF i > Len(s) THEN << >>
  ELSE LET j == AlNumRun(s, i + 1)
       IN  IF s[i] = "," /\ j > i + 1
             THEN << SubSeq(s, i + 1, j - 1) >>
             ELSE search_open_ended(s, i + 1)

RECURSIVE search(_, _)
\* username_pattern.search(line) from position i: the group 'user' of the
\* leftmost match of ,([a-zA-Z0-9]+), as a one-element sequence, or << >>
\* when the pattern matches nowhere.  The + is greedy and a shorter run is
\* always followed by an alphanumeric, so at a given comma the only candidate
\* is the longest run.
search(s, i) ==
  IF i > Len(s) THEN << >>
  ELSE LET j == AlNumRun(s, i + 1)
       IN  IF s[i] = "," /\ j > i + 1 /\ j <= Len(s) /\ s[j] = ","
             THEN << SubSeq(s, i + 1, j - 1) >>
             ELSE search(s, i + 1)

(***************************************************************************)
(* clean and ldif_to_tuple.                                                *)
(***************************************************************************)
\* clean: the strip applied to each line of the source
clean(line) == strip(line)

\* the outcome of a call: it raises the exception exc, or (exc = "") returns
\* the one element of ret
Raise(e) == [exc |-> e, ret |-> << >>]

Return(v) == [exc |-> "", ret |-> << v >>]

RECURSIVE rfind(_, _, _)
\* the greatest index <= i at which the character c occurs in s, 0 when none
rfind(s, c, i) ==
  IF i < 1 THEN 0
  ELSE IF s[i] = c THEN i
  ELSE rfind(s, c, i - 1)

\* ldif_to_tuple with rpartition for partition: the pair around the last colon
ldif_to_tuple_last_colon(ldif) ==
  LET k == rfind(ldif, ":", Len(ldif))
  IN  IF k = 0 THEN Raise("InvalidLdifError")
      ELSE Return(<< strip(SubSeq(ldif, 1, k - 1)), strip(Drop(ldif, k + 1)) >>)

\* ldif_to_tuple without lines 101-102: a line without a colon becomes the
\* pair (line, '')
ldif_to_tuple_lenient(ldif) ==
  LET p == partition(ldif, ":")
  IN  Return(<< strip(p[1]), strip(p[3]) >>)

\* ldif_to_tuple: the pair (attr.strip(), value.strip()) around the first
\* colon; raises InvalidLdifError when the line holds no colon
ldif_to_tuple(ldif) ==
  LET p == partition(ldif, ":")
  IN  IF p[2] = <<>> THEN Raise("InvalidLdifError")
      ELSE Return(<< strip(p[1]), strip(p[3]) >>)

(***************************************************************************)
(* get_fullname.                                                           *)
(***************************************************************************)
AttrDisplayName == <<"d", "i", "s", "p", "l", "a", "y", "N", "a", "m", "e">>

AttrDescription == <<"d", "e", "s", "c", "r", "i", "p", "t", "i", "o", "n">>

AttrGecos == <<"g", "e", "c", "o", "s">>

\* fullname_attrs = set(['displayName', 'description', 'gecos'])
fullname_attrs == { AttrDisplayName, AttrDescription, AttrGecos }

\* Member(userid, fullname)
Member(userid, fullname) == [userid |-> userid, fullname |-> fullname]

RECURSIVE max_user_names_last_wins(_, _, _)
\* max_user_names keeping the last of the longest values, not the first
max_user_names_last_wins(user_details, i, best) ==
  IF i > Len(user_details)
    THEN IF best = << >> THEN Raise("ValueError") ELSE Return(best[1])
    ELSE LET t == ldif_to_tuple(user_details[i])
         IN  IF t.exc # "" THEN Raise(t.exc)
             ELSE LET attr  == t.ret[1][1]
                      value == t.ret[1][2]
                  IN  IF attr \in fullname_attrs
                           /\ (best = << >> \/ Len(value) >= Len(best[1]))
                        THEN max_user_names_last_wins(user_details, i + 1, << value >>)
                        ELSE max_user_names_last_wins(user_details, i + 1, best)

RECURSIVE max_user_names_or_empty(_, _, _)
\* max_user_names with a default: the empty name when there is no candidate
max_user_names_or_empty(user_details, i, best) ==
  IF i > Len(user_details)
    THEN IF best = << >> THEN Return(<< >>) ELSE Return(best[1])
    ELSE LET t == ldif_to_tuple(user_details[i])
         IN  IF t.exc # "" THEN Raise(t.exc)
             ELSE LET attr  == t.ret[1][1]
                      value == t.ret[1][2]
                  IN  IF attr \in fullname_attrs
                           /\ (best = << >> \/ Len(value) > Len(best[1]))
                        THEN max_user_names_or_empty(user_details, i + 1, << value >>)
                        ELSE max_user_names_or_empty(user_details, i + 1, best)

RECURSIVE max_user_names(_, _, _)
\* max(user_names, key=len) over the lazy chain
\*     imap(ldif_to_tuple, user_details) -> (value ... if attr in fullname_attrs)
\* max pulls the lines one by one from position i; best holds the largest
\* value so far (<< >> before the first candidate) and is replaced only by a
\* strictly longer one.  A line without a colon raises when it is pulled; an
\* exhausted chain with no candidate makes max raise ValueError.
max_user_names(user_details, i, best) ==
  IF i > Len(user_details)
    THEN IF best = << >> THEN Raise("ValueError") ELSE Return(best[1])
    ELSE LET t == ldif_to_tuple(user_details[i])
         IN  IF t.exc # "" THEN Raise(t.exc)
             ELSE LET attr  == t.ret[1][1]
                      value == t.ret[1][2]
                  IN  IF attr \in fullname_attrs
                           /\ (best = << >> \/ Len(value) > Len(best[1]))
                        THEN max_user_names(user_details, i + 1, << value >>)
                        ELSE max_user_names(user_details, i + 1, best)

\* get_fullname without line 123: the name is resolved and not cached
get_fullname_no_store(cch, ulist, userid, details, imap_bound) ==
  IF userid \in DOMAIN cch
    THEN [exc |-> "", cache |-> cch, userlist |-> ulist, popen |-> << >>]
    ELSE IF ~imap_bound
      THEN [exc |-> "NameError", cache |-> cch, userlist |-> ulist,
            popen |-> << userid >>]
      ELSE LET fullname == max_user_names(details, 1, << >>)
           IN  IF fullname.exc # ""
                 THEN [exc |-> fullname.exc, cache |-> cch, userlist |-> ulist,
                       popen |-> << userid >>]
                 ELSE [exc |-> "", cache |-> cch,
                       userlist |-> Append(ulist, Member(userid, fullname.ret[1])),
                       popen |-> << userid >>]

\* One pass of the loop of get_fullname for the pair (userlist, userid) sent
\* to it.  details is what the ldaplist call of lines 116-117 returns when
\* it is made; imap_bound says whether the global name imap read at line 118
\* is bound.  The result holds the exception raised ("" for none), the cache
\* and the user list after the pass, and the ldaplist calls made (popen).
\* The append of line 124 is inside the except clause: it is not reached
\* when cache[userid] succeeds.
get_fullname(cch, ulist, userid, details, imap_bound) ==
  IF userid \in DOMAIN cch
    THEN [exc |-> "", cache |-> cch, userlist |-> ulist, popen |-> << >>]
    ELSE IF ~imap_bound
      THEN [exc |-> "NameError", cache |-> cch, userlist |-> ulist,
            popen |-> << userid >>]
      ELSE LET fullname == max_user_names(details, 1, << >>)
           IN  IF fullname.exc # ""
                 THEN [exc |-> fullname.exc, cache |-> cch, userlist |-> ulist,
                       popen |-> << userid >>]
                 ELSE [exc |-> "",
                       cache |-> (userid :> fullname.ret[1]) @@ cch,
                       userlist |-> Append(ulist, Member(userid, fullname.ret[1])),
                       popen |-> << userid >>]

(***************************************************************************)
(* get_username.                                                           *)
(***************************************************************************)
\* One pass of the loop of get_username: search the line for the pattern and
\* send a match to get_fullname; a line without a match is dropped.
get_username(cch, ulist, line, details, imap_bound) ==
  LET matches == search(line, 1)
  IN  IF matches # << >>
        THEN get_fullname(cch, ulist, matches[1], details, imap_bound)
        ELSE [exc |-> "", cache |-> cch, userlist |-> ulist, popen |-> << >>]

(***************************************************************************)
(* compile_report.                                                         *)
(***************************************************************************)
\* the prefix of line 153 without its space
PrefixCnNoSpace == <<"c", "n", ":">>

PrefixCn == <<"c", "n", ":", " ">>

PrefixNis == <<"n", "i", "s", "N", "e", "t", "g", "r", "o", "u", "p">>

\* Netgroup(groupname, grp, env, role, member, keep)
Netgroup(gname, grp, env, role, member, keep) ==
  [groupname |-> gname, grp |-> grp, env |-> env, role |-> role,
   member |-> member, keep |-> keep]

\* flush_rows walking userlist from its end
flush_rows_reversed(gname, tokens, ulist) ==
  [i \in 1..Len(ulist) |->
     Netgroup(gname, tokens[2], tokens[3], tokens[4],
              ulist[Len(ulist) + 1 - i], "N")]

\* flush_rows with the fields taken one token too early, as if line 147
\* unpacked company, env, role, _
flush_rows_shifted(gname, tokens, ulist) ==
  [i \in 1..Len(ulist) |->
     Netgroup(gname, tokens[1], tokens[2], tokens[3], ulist[i], "N")]

\* the rows the for loop of lines 148-149 appends, in the order of userlist
flush_rows(gname, tokens, ulist) ==
  [i \in 1..Len(ulist) |->
     Netgroup(gname, tokens[2], tokens[3], tokens[4], ulist[i], "N")]

\* on_blank without lines 151-152: the block is not reset
on_blank_no_reset(rows, ulist, gname, cch) ==
  LET tokens == split(gname, "_")
  IN  IF Len(tokens) # 4
        THEN [exc |-> "ValueError", report_rows |-> rows, userlist |-> ulist,
              groupname |-> gname, cache |-> cch, popen |-> << >>]
        ELSE [exc |-> "", report_rows |-> rows \o flush_rows(gname, tokens, ulist),
              userlist |-> ulist, groupname |-> gname, cache |-> cch,
              popen |-> << >>]

\* on_blank with no check of the number of fields: missing fields are empty
on_blank_unchecked(rows, ulist, gname, cch) ==
  LET tokens == split(gname, "_") \o << << >>, << >>, << >> >>
  IN  [exc |-> "", report_rows |-> rows \o flush_rows(gname, tokens, ulist),
       userlist |-> << >>, groupname |-> << >>, cache |-> cch,
       popen |-> << >>]

\* on_blank with the name checked after the rows are appended
on_blank_late_check(rows, ulist, gname, cch) ==
  LET tokens == split(gname, "_") \o << << >>, << >>, << >> >>
  IN  IF Len(tokens) # 7
        THEN [exc |-> "ValueError",
              report_rows |-> rows \o flush_rows(gname, tokens, ulist),
              userlist |-> ulist, groupname |-> gname, cache |-> cch,
              popen |-> << >>]
        ELSE [exc |-> "", report_rows |-> rows \o flush_rows(gname, tokens, ulist),
              userlist |-> << >>, groupname |-> << >>, cache |-> cch,
              popen |-> << >>]

\* lines 147-152, the branch of an empty line: the unpacking of line 147
\* raises ValueError unless the split yields exactly four fields, before any
\* row is appended; otherwise one row per member, and the block is reset
on_blank(rows, ulist, gname, cch) ==
  LET tokens == split(gname, "_")
  IN  IF Len(tokens) # 4
        THEN [exc |-> "ValueError", report_rows |-> rows, userlist |-> ulist,
              groupname |-> gname, cache |-> cch, popen |-> << >>]
        ELSE [exc |-> "", report_rows |-> rows \o flush_rows(gname, tokens, ulist),
              userlist |-> << >>, groupname |-> << >>, cache |-> cch,
              popen |-> << >>]

\* on_cn starting a new block: the members seen so far are dropped
on_cn_reset(rows, ulist, gname, cch, line) ==
  [exc |-> "", report_rows |-> rows, userlist |-> << >>,
   groupname |-> strip(partition(line, ":")[3]), cache |-> cch,
   popen |-> << >>]

\* line 154, the branch of a 'cn: ' line
on_cn(rows, ulist, gname, cch, line) ==
  [exc |-> "", report_rows |-> rows, userlist |-> ulist,
   groupname |-> strip(partition(line, ":")[3]), cache |-> cch,
   popen |-> << >>]

\* on_nis writing the row of a new member at once, not at the empty line
on_nis_eager(rows, ulist, gname, cch, line, details, imap_bound) ==
  LET r      == get_username(cch, ulist, line, details, imap_bound)
      tokens == split(gname, "_") \o << << >>, << >>, << >> >>
      added  == SubSeq(r.userlist, Len(ulist) + 1, Len(r.userlist))
  IN  [exc |-> r.exc, report_rows |-> rows \o flush_rows(gname, tokens, added),
       userlist |-> r.userlist, groupname |-> gname, cache |-> r.cache,
       popen |-> r.popen]

\* line 156, the branch of a 'nisNetgroup' line: user_builder.send
on_nis(rows, ulist, gname, cch, line, details, imap_bound) ==
  LET r == get_username(cch, ulist, line, details, imap_bound)
  IN  [exc |-> r.exc, report_rows |-> rows, userlist |-> r.userlist,
       groupname |-> gname, cache |-> r.cache, popen |-> r.popen]

\* One pass of the loop of compile_report for the pair (report_rows,
\* ldif_line) sent to it; a line of no branch changes nothing.
compile_report(rows, ulist, gname, cch, line, details, imap_bound) ==
  IF Len(line) = 0
    THEN on_blank(rows, ulist, gname, cch)
  ELSE IF startswith(line, PrefixCn)
    THEN on_cn(rows, ulist, gname, cch, line)
  ELSE IF startswith(line, PrefixNis)
    THEN on_nis(rows, ulist, gname, cch, line, details, imap_bound)
  ELSE [exc |-> "", report_rows |-> rows, userlist |-> ulist,
        groupname |-> gname, cache |-> cch, popen |-> << >>]

(***************************************************************************)
(* Inputs: lines of the primary source (ldaplist -l netgroup) and results  *)
(* of the secondary lookup (ldaplist -l passwd), as the two commands print *)
(* them.                                                                   *)
(***************************************************************************)
RawBlank == << >>

RawSpaces == <<" ", "\n">>

RawCnA == <<"c", "n", ":", " ", "g", "_", "a", "_", "p", "_", "r", "\n">>

RawCnB == <<"c", "n", ":", " ", " ", "h", "_", "b", "_", "q", "_", "s", " ", "\n">>

RawCnThree == <<"c", "n", ":", " ", "x", "_", "y", "_", "z", "\n">>

RawCnNoSpace == <<"c", "n", ":", "g", "_", "a", "_", "p", "_", "r", "\n">>

RawTripleAl == <<"n", "i", "s", "N", "e", "t", "g", "r", "o", "u", "p", "T", "r", "i", "p", "l", "e", ":", " ", "(", ",", "a", "l", ",", ")", "\n">>

RawTripleBo == <<"n", "i", "s", "N", "e", "t", "g", "r", "o", "u", "p", "T", "r", "i", "p", "l", "e", ":", " ", "(", "h", ",", "b", "o", ",", "d", ")", "\n">>

RawTripleCy == <<"n", "i", "s", "N", "e", "t", "g", "r", "o", "u", "p", "T", "r", "i", "p", "l", "e", ":", " ", "(", ",", "c", "y", ",", ")", "\n">>

RawTripleHost == <<"n", "i", "s", "N", "e", "t", "g", "r", "o", "u", "p", "T", "r", "i", "p", "l", "e", ":", " ", "(", "h", "1", ",", ",", ")", "\n">>

RawOther == <<"o", "b", "j", "e", "c", "t", "C", "l", "a", "s", "s", ":", " ", "t", "o", "p", "\n">>

\* the lines the primary source may yield
RawLines ==
  { RawBlank, RawSpaces, RawCnA, RawCnB, RawCnThree, RawCnNoSpace,
    RawTripleAl, RawTripleBo, RawTripleCy, RawTripleHost, RawOther }

DetDisplayShort == <<"d", "i", "s", "p", "l", "a", "y", "N", "a", "m", "e", ":", " ", "A", "l">>

DetUidLong == <<"u", "i", "d", ":", " ", "a", "l", "f", "r", "e", "d", "0", "1">>

DetGecosLong == <<"g", "e", "c", "o", "s", ":", " ", "A", "l", "a", "n", " ", "T">>

DetGecosBo == <<"g", "e", "c", "o", "s", ":", " ", "B", "o">>

DetDescrBx == <<" ", "d", "e", "s", "c", "r", "i", "p", "t", "i", "o", "n", " ", ":", " ", "B", "x", " ">>

DetDisplayEmpty == <<"d", "i", "s", "p", "l", "a", "y", "N", "a", "m", "e", ":">>

DetNoColon == <<"o", "o", "p", "s">>

\* the results the secondary lookup may give: candidates of different
\* lengths around a longer value of another attribute, two candidates of the
\* same length, no candidate, a line without a colon after a candidate, a
\* candidate with an empty value
Profiles ==
  { << DetDisplayShort, DetUidLong, DetGecosLong >>,
    << DetGecosBo, DetDescrBx >>,
    << DetUidLong >>,
    << DetDisplayShort, DetNoColon >>,
    << DetDisplayEmpty >> }

(***************************************************************************)
(* State.                                                                  *)
(***************************************************************************)
VARIABLES
  report_rows,   \* the list the driver passes with every send
  userlist,      \* compile_report: the members of the current block
  groupname,     \* compile_report: the name of the current block
  ldif_line,     \* compile_report: the line last received
  cache,         \* get_fullname: userid -> fullname
  user_details,  \* get_fullname: the result of the last ldaplist -l passwd
  passwd_calls,  \* the userids of the ldaplist -l passwd calls made, in order
  imap_bound,    \* whether the module global imap is bound
  exc,           \* the exception that ended the run, "" while there is none
  pc,            \* the driver: "stream", "print", "done" or "aborted"
  nsent,         \* the number of sends the driver has made
  printed,       \* the rows the driver has printed
  row_sends,     \* history: for each row, the number of the send that appended it
  last_blank,    \* history: the number of the last send of an empty line, 0 if none
  ldif,          \* the decoder on its own: its argument
  decoded        \* the decoder on its own: << >> before the call, then its outcome

vars ==
  << report_rows, userlist, groupname, ldif_line, cache, user_details,
     passwd_calls, imap_bound, exc, pc, nsent, printed, row_sends,
     last_blank, ldif, decoded >>

pipeline_vars ==
  << report_rows, userlist, groupname, ldif_line, cache, user_details,
     passwd_calls, imap_bound, exc, pc, nsent, printed, row_sends,
     last_blank >>

\* cache = dict()
EmptyCache == [u \in {} |-> << >>]

\* The state when the driver has primed compile_report (lines 141-143, 109,
\* 165-166).  The module imports only chain from itertools (line 40), so imap
\* is unbound unless the importing program binds it in the module's globals,
\* as the test suite binds source and get_fullname.
InitPipeline ==
  /\ report_rows = << >>
  /\ userlist = << >>
  /\ groupname = << >>
  /\ ldif_line = << >>
  /\ cache = EmptyCache
  /\ user_details = << >>
  /\ passwd_calls = << >>
  /\ imap_bound \in BOOLEAN
  /\ exc = ""
  /\ pc = "stream"
  /\ nsent = 0
  /\ printed = << >>
  /\ row_sends = << >>
  /\ last_blank = 0

Init ==
  /\ InitPipeline
  /\ ldif = << >>
  /\ decoded = << >>

(***************************************************************************)
(* The driver (lines 163-188).                                             *)
(***************************************************************************)
\* the driver without line 171: the last block is never flushed
FinalFlushForgotten ==
  /\ pc = "stream"
  /\ pc' = "print"
  /\ UNCHANGED << report_rows, userlist, groupname, ldif_line, cache,
                  user_details, passwd_calls, imap_bound, exc, nsent, printed,
                  row_sends, last_blank, ldif, decoded >>

\* Send under a driver that catches the exception of a pass and goes on
Send_resilient(line, details, next_pc) ==
  \E r \in { compile_report(report_rows, userlist, groupname, cache, line,
                          details, imap_bound) } :
      /\ ldif_line' = line
      /\ report_rows' = r.report_rows
      /\ userlist' = r.userlist
      /\ groupname' = r.groupname
      /\ cache' = r.cache
      /\ passwd_calls' = passwd_calls \o r.popen
      /\ user_details' = IF r.popen # << >> THEN details ELSE user_details
      /\ exc' = r.exc
      /\ pc' = next_pc
      /\ nsent' = nsent + 1
      /\ row_sends' = row_sends \o
                        [i \in 1..(Len(r.report_rows) - Len(report_rows)) |-> nsent + 1]
      /\ last_blank' = IF line = << >> THEN nsent + 1 ELSE last_blank
      /\ UNCHANGED << imap_bound, printed, ldif, decoded >>

\* report_builder.send((report_rows, line)): compile_report runs one pass of
\* its loop, and with it get_username and get_fullname; an exception raised
\* in the pass leaves the driver, which catches nothing.  next_pc is where
\* the driver goes when the send returns.  r is the outcome of the pass.
Send(line, details, next_pc) ==
  \E r \in { compile_report(report_rows, userlist, groupname, cache, line,
                          details, imap_bound) } :
      /\ ldif_line' = line
      /\ report_rows' = r.report_rows
      /\ userlist' = r.userlist
      /\ groupname' = r.groupname
      /\ cache' = r.cache
      /\ passwd_calls' = passwd_calls \o r.popen
      /\ user_details' = IF r.popen # << >> THEN details ELSE user_details
      /\ exc' = r.exc
      /\ pc' = IF r.exc = "" THEN next_pc ELSE "aborted"
      /\ nsent' = nsent + 1
      /\ row_sends' = row_sends \o
                        [i \in 1..(Len(r.report_rows) - Len(report_rows)) |-> nsent + 1]
      /\ last_blank' = IF line = << >> THEN nsent + 1 ELSE last_blank
      /\ UNCHANGED << imap_bound, printed, ldif, decoded >>

\* clean(source): the stripped lines the driver may send
CleanLines == { clean(raw) : raw \in RawLines }

\* What the secondary source may answer during the pass for line: any of
\* Profiles when the pass makes the ldaplist call, and nothing to choose
\* when it makes none.
Answers(line) ==
  IF compile_report(report_rows, userlist, groupname, cache, line, << >>,
                    imap_bound).popen # << >>
    THEN Profiles
    ELSE { << >> }

\* for line in clean(source): report_builder.send((report_rows, line))
SendLine ==
  /\ pc = "stream"
  /\ nsent < MaxLines
  /\ \E line \in CleanLines :
       \E details \in Answers(line) :
         Send(line, details, "stream")

\* the source is exhausted: report_builder.send((report_rows, ''))
FinalFlush ==
  /\ pc = "stream"
  /\ Send(<< >>, << >>, "print")

\* for row in report_rows: print(...)
PrintReport ==
  /\ pc = "print"
  /\ printed' = report_rows
  /\ pc' = "done"
  /\ UNCHANGED << report_rows, userlist, groupname, ldif_line, cache,
                  user_details, passwd_calls, imap_bound, exc, nsent,
                  row_sends, last_blank, ldif, decoded >>

Next == SendLine \/ FinalFlush \/ PrintReport

Spec == Init /\ [][Next]_vars

(***************************************************************************)
(* ldif_to_tuple on its own, on every line of at most MaxLen characters    *)
(* over a small alphabet.                                                  *)
(***************************************************************************)
DecoderAlphabet == { "a", "b", ":", " " }

DecoderInputs ==
  UNION { [1..n -> DecoderAlphabet] : n \in 0..MaxLen }

InitDecoder ==
  /\ InitPipeline
  /\ ldif \in DecoderInputs
  /\ decoded = << >>

\* decoded = ldif_to_tuple(ldif)
Decode ==
  /\ decoded = << >>
  /\ decoded' = << ldif_to_tuple(ldif) >>
  /\ UNCHANGED << ldif, pipeline_vars >>

NextDecoder == Decode

SpecDecoder == InitDecoder /\ [][NextDecoder]_vars

(***************************************************************************)
(* One membership line sent to a primed pipeline: every line that begins   *)
(* with nisNetgroup and continues with at most MaxLen characters over a    *)
(* small alphabet.                                                         *)
(***************************************************************************)
ExtractAlphabet == { ",", "a", "1", "-" }

ExtractBodies ==
  UNION { [1..n -> ExtractAlphabet] : n \in 0..MaxLen }

\* the first pass of for line in clean(source), on a membership line
Extract ==
  /\ pc = "stream"
  /\ nsent = 0
  /\ \E body \in ExtractBodies :
       \E line \in { clean(PrefixNis \o body \o << "\n" >>) } :
         \E details \in Answers(line) :
           Send(line, details, "stream")

NextExtract == Extract

SpecExtract == Init /\ [][NextExtract]_vars

(***************************************************************************)
(* Vocabulary of the properties, stated on the characters of a string and  *)
(* not through the operators above.                                        *)
(***************************************************************************)
\* the positions of the underscores of a group name
Underscores(g) == { i \in 1..Len(g) : g[i] = "_" }

\* the name is made of exactly four underscore-separated tokens
FourTokens(g) == Cardinality(Underscores(g)) = 3

\* the position of the n-th underscore of g
UnderscoreAt(g, n) ==
  CHOOSE i \in Underscores(g) :
    Cardinality({ j \in Underscores(g) : j < i }) = n - 1

\* the n-th of the four tokens of g
Token(g, n) ==
  LET from == IF n = 1 THEN 1 ELSE UnderscoreAt(g, n - 1) + 1
      to   == IF n = 4 THEN Len(g) ELSE UnderscoreAt(g, n) - 1
  IN  SubSeq(g, from, to)

\* the prefix of a group-identity line, 'cn: '
GroupIdentityPrefix == <<"c", "n", ":", " ">>

\* the prefix of a membership line, 'nisNetgroup'
MembershipPrefix == <<"n", "i", "s", "N", "e", "t", "g", "r", "o", "u", "p">>

\* this step is a send of the driver; the line sent is ldif_line'
IsSend == nsent' = nsent + 1

\* the rows this step appended, when report_rows is a prefix of report_rows'
NewRows == SubSeq(report_rows', Len(report_rows) + 1, Len(report_rows'))

\* report_rows only grew at its end in this step
RowsKept ==
  /\ Len(report_rows') >= Len(report_rows)
  /\ SubSeq(report_rows', 1, Len(report_rows)) = report_rows

(***************************************************************************)
(* Properties.                                                             *)
(***************************************************************************)
\* C1 (flush correctness): a send of an empty line while the group name is
\* made of exactly four tokens t1_t2_t3_t4 appends exactly one row per member
\* of userlist, in the order of userlist, each row being (groupname, t2, t3,
\* t4, member, 'N'), and appends nothing else.
C1_FlushCorrectness ==
  [][ (IsSend /\ ldif_line' = << >> /\ FourTokens(groupname)) =>
        /\ RowsKept
        /\ Len(NewRows) = Len(userlist)
        /\ \A i \in 1..Len(userlist) :
             NewRows[i] = [groupname |-> groupname,
                           grp       |-> Token(groupname, 2),
                           env       |-> Token(groupname, 3),
                           role      |-> Token(groupname, 4),
                           member    |-> userlist[i],
                           keep      |-> "N"] ]_vars

\* C1 witness: the send just made was an empty line that appended two rows,
\* for two different members
C1_Witness ==
  /\ exc = ""
  /\ nsent > 0
  /\ ldif_line = << >>
  /\ Len(report_rows) >= 2
  /\ row_sends[Len(report_rows)] = nsent
  /\ row_sends[Len(report_rows) - 1] = nsent
  /\ report_rows[Len(report_rows)].member.userid
       # report_rows[Len(report_rows) - 1].member.userid

\* the identifiers a line carries between two commas: the non-empty
\* alphanumeric fields that a comma precedes and a comma follows
UsersIn(line) ==
  { SubSeq(line, i + 1, j - 1) :
      << i, j >> \in { p \in (1..Len(line)) \X (1..Len(line)) :
                         /\ p[2] > p[1] + 1
                         /\ line[p[1]] = ","
                         /\ line[p[2]] = ","
                         /\ \A k \in (p[1] + 1)..(p[2] - 1) : line[k] \in AlNum } }

\* the line begins with the characters of p
HasPrefix(line, p) ==
  /\ Len(line) >= Len(p)
  /\ \A i \in 1..Len(p) : line[i] = p[i]

\* the members of the accumulator and of the rows
KnownMembers ==
  { userlist[i] : i \in 1..Len(userlist) }
    \cup { report_rows[i].member : i \in 1..Len(report_rows) }

\* C2 (one row per (group, member) pair), as the claim states it: every
\* membership line that carries an alphanumeric user identifier and is
\* processed without error appends a Member for that identifier to the
\* accumulator of its block, also when the identifier is already in the cache.
C2_OneMemberPerMembershipLine ==
  [][ (IsSend /\ exc' = "" /\ HasPrefix(ldif_line', MembershipPrefix)
         /\ UsersIn(ldif_line') # {}) =>
        /\ Len(userlist') = Len(userlist) + 1
        /\ SubSeq(userlist', 1, Len(userlist)) = userlist
        /\ userlist'[Len(userlist')].userid \in UsersIn(ldif_line') ]_vars

\* C3 (at most one secondary lookup per identifier): no identifier occurs
\* twice among the ldaplist -l passwd calls, every member resolved so far has
\* its name in the cache, and so has every identifier looked up unless the
\* lookup ended the run.
C3_AtMostOneLookup ==
  /\ \A i, j \in 1..Len(passwd_calls) :
       passwd_calls[i] = passwd_calls[j] => i = j
  /\ \A m \in KnownMembers :
       m.userid \in DOMAIN cache /\ cache[m.userid] = m.fullname
  /\ exc = "" =>
       \A i \in 1..Len(passwd_calls) : passwd_calls[i] \in DOMAIN cache

\* C3 witness: the line just processed names an identifier that a row of an
\* earlier group already holds, and that identifier was looked up once
C3_Witness ==
  /\ exc = ""
  /\ nsent > 0
  /\ \E u \in UsersIn(ldif_line) :
       /\ \E i \in 1..Len(report_rows) : report_rows[i].member.userid = u
       /\ Cardinality({ i \in 1..Len(passwd_calls) : passwd_calls[i] = u }) = 1

\* C4 (trailing-flush contract): while the driver is still reading the
\* stream, every row was appended by a send no later than the last empty
\* line, so the block that follows it has no row; and when the driver's final
\* empty line returns, the rows of that block, one per accumulated member in
\* order and under its group name, have been appended, so that a block with
\* a member leaves the report non-empty.
C4_TrailingFlush ==
  /\ [](pc = "stream" =>
          \A i \in 1..Len(row_sends) : row_sends[i] <= last_blank)
  /\ [][ (pc = "stream" /\ pc' = "print") =>
           /\ RowsKept
           /\ Len(NewRows) = Len(userlist)
           /\ \A i \in 1..Len(userlist) :
                /\ NewRows[i].member = userlist[i]
                /\ NewRows[i].groupname = groupname
           /\ (userlist # << >> => report_rows' # << >>) ]_vars

\* C4 witness: the stream ended inside a block, and the final empty line has
\* appended that block's two rows
C4_Witness ==
  /\ pc = "print"
  /\ Len(report_rows) >= 2
  /\ row_sends[Len(report_rows)] = nsent
  /\ row_sends[Len(report_rows) - 1] = nsent
  /\ \A i \in 1..Len(row_sends) : row_sends[i] = nsent

\* C5 (invalid group name detected at flush and only at flush): a 'cn: '
\* line is processed without error whatever its value; an empty line
\* processed while the group name is not made of exactly four tokens raises,
\* and leaves report_rows as it was.
C5_InvalidNameAtFlush ==
  [][ IsSend =>
        /\ (HasPrefix(ldif_line', GroupIdentityPrefix) => exc' = "")
        /\ (ldif_line' = << >> /\ ~FourTokens(groupname) =>
              exc' # "" /\ report_rows' = report_rows) ]_vars

\* C5 witness: a three-token name was accepted, members were accumulated
\* under it, and the empty line that followed raised
C5_Witness ==
  /\ exc = "ValueError"
  /\ ldif_line = << >>
  /\ Cardinality(Underscores(groupname)) = 2
  /\ userlist # << >>
  /\ report_rows # << >>

\* C6 (output order): the sends that appended the rows never decrease along
\* report_rows and the rows of one send carry one group name, so the groups
\* follow one another in the order of their empty lines and are never
\* interleaved; a send leaves the earlier rows in place, the rows it appends
\* are the members of userlist in the order of userlist, and userlist itself
\* only grows at its end, by a member the line just sent names.
C6_OutputOrder ==
  /\ [](\A i, j \in 1..Len(report_rows) :
          /\ (i < j => row_sends[i] <= row_sends[j])
          /\ (row_sends[i] = row_sends[j] =>
                report_rows[i].groupname = report_rows[j].groupname))
  /\ [][ IsSend =>
           /\ RowsKept
           /\ (NewRows # << >> =>
                 /\ Len(NewRows) = Len(userlist)
                 /\ \A i \in 1..Len(userlist) : NewRows[i].member = userlist[i])
           /\ (userlist' # << >> =>
                 /\ Len(userlist') \in { Len(userlist), Len(userlist) + 1 }
                 /\ SubSeq(userlist', 1, Len(userlist)) = userlist
                 /\ (Len(userlist') = Len(userlist) + 1 =>
                       userlist'[Len(userlist')].userid \in UsersIn(ldif_line'))) ]_vars

\* C6 witness: three rows, the first two appended by one empty line for two
\* different members and the third by a later one under another group name
C6_Witness ==
  /\ Len(report_rows) = 3
  /\ row_sends[1] = row_sends[2]
  /\ row_sends[2] < row_sends[3]
  /\ report_rows[1].member.userid # report_rows[2].member.userid
  /\ report_rows[2].groupname # report_rows[3].groupname

\* C7 (ignored lines): a send of a non-empty line that starts with neither
\* 'cn: ' nor 'nisNetgroup' raises nothing and leaves the group name, the
\* accumulated members, the cache and report_rows as they were.
C7_IgnoredLines ==
  [][ (IsSend /\ ldif_line' # << >>
         /\ ~HasPrefix(ldif_line', GroupIdentityPrefix)
         /\ ~HasPrefix(ldif_line', MembershipPrefix)) =>
        /\ exc' = ""
        /\ groupname' = groupname
        /\ userlist' = userlist
        /\ cache' = cache
        /\ report_rows' = report_rows ]_vars

\* C7 witness: inside a block that holds a name and a member, the line
\* 'cn:g_a_p_r' (no space after the colon) has just been processed
C7_Witness ==
  /\ exc = ""
  /\ nsent > 0
  /\ ldif_line = <<"c", "n", ":", "g", "_", "a", "_", "p", "_", "r">>
  /\ groupname # << >>
  /\ groupname # <<"g", "_", "a", "_", "p", "_", "r">>
  /\ userlist # << >>

\* line i of a lookup result decodes to a pair whose attribute is one of
\* displayName, description, gecos
IsCandidate(details, i) ==
  /\ ldif_to_tuple(details[i]).exc = ""
  /\ ldif_to_tuple(details[i]).ret[1][1]
       \in { AttrDisplayName, AttrDescription, AttrGecos }

\* the value of line i of a lookup result
ValueAt(details, i) == ldif_to_tuple(details[i]).ret[1][2]

\* this step made a secondary lookup; its result is user_details'
IsLookup == IsSend /\ Len(passwd_calls') = Len(passwd_calls) + 1

C9_NoCandidateIsError ==
  [][ (IsLookup /\ \A i \in 1..Len(user_details') :
                     ~IsCandidate(user_details', i)) =>
        /\ exc' # ""
        /\ userlist' = userlist
        /\ cache' = cache ]_vars

\* C9 witness: with imap bound, a lookup that returned the one line
\* 'uid: alfred01' ended the run with the ValueError of max
C9_Witness ==
  /\ imap_bound
  /\ exc = "ValueError"
  /\ passwd_calls # << >>
  /\ user_details = << DetUidLong >>
  /\ passwd_calls[Len(passwd_calls)] \notin DOMAIN cache

\* t is s without its leading and trailing whitespace
IsTrimOf(t, s) ==
  /\ t = << >> \/ (t[1] \notin Whitespace /\ t[Len(t)] \notin Whitespace)
  /\ \E a \in 0..Len(s) :
       /\ a + Len(t) <= Len(s)
       /\ SubSeq(s, a + 1, a + Len(t)) = t
       /\ \A k \in (1..a) \cup ((a + Len(t) + 1)..Len(s)) : s[k] \in Whitespace

\* C10 (decoder result): for a line holding a colon, ldif_to_tuple returns
\* the pair of the text before the first colon and the text after it, each
\* without its surrounding whitespace; later colons stay in the value.
C10_DecoderResult ==
  (decoded # << >> /\ \E k \in 1..Len(ldif) : ldif[k] = ":") =>
    LET k == CHOOSE k \in 1..Len(ldif) :
               ldif[k] = ":" /\ \A j \in 1..(k - 1) : ldif[j] # ":"
    IN  /\ decoded[1].exc = ""
        /\ Len(decoded[1].ret) = 1
        /\ IsTrimOf(decoded[1].ret[1][1], SubSeq(ldif, 1, k - 1))
        /\ IsTrimOf(decoded[1].ret[1][2], SubSeq(ldif, k + 1, Len(ldif)))

\* C10 witness: 'a: :' was decoded to ('a', ':')
C10_Witness ==
  /\ ldif = <<"a", ":", " ", ":">>
  /\ decoded = << [exc |-> "", ret |-> << << <<"a">>, <<":">> >> >>] >>

\* C11 (decoder failure): ldif_to_tuple raises InvalidLdifError, and returns
\* no pair, exactly on the lines that hold no colon; a line that holds a
\* colon is decoded whatever stands to the left of the colon.
C11_DecoderFailure ==
  decoded # << >> =>
    IF \E k \in 1..Len(ldif) : ldif[k] = ":"
      THEN decoded[1].exc = "" /\ Len(decoded[1].ret) = 1
      ELSE decoded[1].exc = "InvalidLdifError" /\ decoded[1].ret = << >>

\* C11 witness: 'a b', which holds no colon, was refused
C11_Witness ==
  /\ ldif = <<"a", " ", "b">>
  /\ decoded # << >>
  /\ decoded[1].exc = "InvalidLdifError"

\* C12 (row well-formedness): in every state, every row of report_rows has
\* a group name made of exactly four tokens, has the second, third and
\* fourth token as its company, environment and role, and has the flag 'N'.
C12_RowsWellFormed ==
  \A i \in 1..Len(report_rows) :
    /\ FourTokens(report_rows[i].groupname)
    /\ report_rows[i].grp = Token(report_rows[i].groupname, 2)
    /\ report_rows[i].env = Token(report_rows[i].groupname, 3)
    /\ report_rows[i].role = Token(report_rows[i].groupname, 4)
    /\ report_rows[i].keep = "N"

\* C12 witness: report_rows holds rows of two groups with different
\* companies
C12_Witness ==
  \E i, j \in 1..Len(report_rows) :
    /\ report_rows[i].groupname # report_rows[j].groupname
    /\ report_rows[i].grp # report_rows[j].grp

\* C13 (rows are materialized only at an empty line): a send of a non-empty
\* line, of whatever kind, leaves report_rows as it was; report_rows changes
\* only in a send of an empty line, and then only grows at its end.
C13_RowsOnlyAtBlankLine ==
  [][ /\ (IsSend /\ ldif_line' # << >> => report_rows' = report_rows)
      /\ (report_rows' # report_rows =>
            IsSend /\ ldif_line' = << >> /\ RowsKept) ]_vars

\* C13 witness: a membership line has just added a member to a block that
\* follows a flushed one: report_rows holds the earlier rows and no other
C13_Witness ==
  /\ exc = ""
  /\ nsent > 0
  /\ HasPrefix(ldif_line, MembershipPrefix)
  /\ userlist # << >>
  /\ userlist[Len(userlist)].userid \in UsersIn(ldif_line)
  /\ report_rows # << >>
  /\ \A i \in 1..Len(report_rows) :
       report_rows[i].member.userid # userlist[Len(userlist)].userid

\* C14 (flush resets the accumulator): right after an empty line processed
\* without error the group name is the empty string and userlist is empty;
\* so after the first line that follows it, userlist holds no member but
\* those that line names, and no member of the flushed block is left to be
\* emitted with a later one.
C14_FlushResets ==
  /\ []((nsent > 0 /\ last_blank = nsent /\ exc = "") =>
          groupname = << >> /\ userlist = << >>)
  /\ [][ (IsSend /\ nsent > 0 /\ last_blank = nsent /\ exc = "") =>
           \A i \in 1..Len(userlist') :
             userlist'[i].userid \in UsersIn(ldif_line') ]_vars

\* C14 witness: the empty line just sent emitted the rows of its block, and
\* the driver is still reading the stream
C14_Witness ==
  /\ pc = "stream"
  /\ nsent > 0
  /\ last_blank = nsent
  /\ report_rows # << >>
  /\ row_sends[Len(row_sends)] = nsent
  /\ userlist = << >>

\* C15 (the final flush is safe), as the claim states it: an empty line
\* sent between groups (empty group name, empty userlist: at the start, after
\* a blank line, or as the driver's final send after a stream that ends with
\* one) or inside a group whose name is made of four tokens raises nothing,
\* and when userlist is empty it adds no row.
C15_EmptyLineAlwaysSafe ==
  [][ (IsSend /\ ldif_line' = << >>
         /\ (FourTokens(groupname) \/ (groupname = << >> /\ userlist = << >>))) =>
        /\ exc' = ""
        /\ (userlist = << >> => report_rows' = report_rows) ]_vars

Commas(s) == { i \in 1..Len(s) : s[i] = "," }

\* the line has exactly two commas, which delimit three fields
IsTriple(s) == Cardinality(Commas(s)) = 2

\* the text between the two commas of a three-field line
SecondField(s) ==
  LET p == CHOOSE i \in Commas(s) : \A j \in Commas(s) : i <= j
      q == CHOOSE i \in Commas(s) : \A j \in Commas(s) : j <= i
  IN  SubSeq(s, p + 1, q - 1)

\* a non-empty string of letters and digits
IsAlphanumeric(t) == Len(t) > 0 /\ \A i \in 1..Len(t) : t[i] \in AlNum

\* C17 (member extraction): on a send of a line that starts with nisNetgroup
\* and has three comma-delimited fields, when the second field is a non-empty
\* alphanumeric string the only identifier the pass can look up is that field,
\* and it is looked up whenever it is not yet in the cache; when the second
\* field is empty or not alphanumeric no error is raised, no lookup is issued,
\* and the accumulator, the cache and the rows are unchanged.
C17_MemberExtraction ==
  [][ (IsSend /\ HasPrefix(ldif_line', MembershipPrefix) /\ IsTriple(ldif_line')) =>
        LET f == SecondField(ldif_line')
        IN  IF IsAlphanumeric(f)
              THEN /\ passwd_calls' \in { passwd_calls, Append(passwd_calls, f) }
                   /\ f \notin DOMAIN cache => passwd_calls' = Append(passwd_calls, f)
                   /\ \A u \in (DOMAIN cache') \ (DOMAIN cache) : u = f
                   /\ \A i \in (Len(userlist) + 1)..Len(userlist') :
                        userlist'[i].userid = f
              ELSE /\ exc' = ""
                   /\ passwd_calls' = passwd_calls
                   /\ userlist' = userlist
                   /\ cache' = cache
                   /\ report_rows' = report_rows ]_vars

\* C17 witness: the line sent had three fields with a second field of one
\* letter and one digit, and the pass looked that field up and appended its
\* Member
C17_Witness ==
  /\ exc = ""
  /\ nsent = 1
  /\ HasPrefix(ldif_line, MembershipPrefix)
  /\ IsTriple(ldif_line)
  /\ SecondField(ldif_line) = << "a", "1" >>
  /\ passwd_calls = << << "a", "1" >> >>
  /\ Len(userlist) = 1
  /\ userlist[1].userid = << "a", "1" >>

\* the line has no colon
NoColon(s) == \A i \in 1..Len(s) : s[i] # ":"

\* C18 (a malformed lookup line is fatal), as the claim states it: when a
\* send issues the secondary lookup and the lookup returns a line without a
\* colon, at any position, the send fails with InvalidLdifError, the cache
\* gets no entry and the accumulator gets no Member.
C18_MalformedLookupLine ==
  [][ (IsLookup /\ \E i \in 1..Len(user_details') : NoColon(user_details'[i])) =>
        /\ exc' = "InvalidLdifError"
        /\ cache' = cache
        /\ userlist' = userlist ]_vars

\* C19 (group-identity overwrite): a send of a line that starts with 'cn: '
\* sets groupname to the text after the first colon (the third character of
\* the line) without its surrounding whitespace, whatever groupname was, and
\* raises nothing and leaves userlist, the rows and the cache as they were;
\* a send of any other non-empty line leaves groupname as it was; so a send
\* of an empty line that succeeds emits every member of userlist, those seen
\* before the last 'cn: ' line included, under the groupname of the last
\* 'cn: ' line.
C19_GroupIdentityOverwrite ==
  [][ /\ (IsSend /\ HasPrefix(ldif_line', GroupIdentityPrefix)) =>
           /\ IsTrimOf(groupname', SubSeq(ldif_line', 4, Len(ldif_line')))
           /\ exc' = ""
           /\ userlist' = userlist
           /\ report_rows' = report_rows
           /\ cache' = cache
      /\ (IsSend /\ ldif_line' # << >>
            /\ ~HasPrefix(ldif_line', GroupIdentityPrefix)) =>
           groupname' = groupname
      /\ (IsSend /\ ldif_line' = << >> /\ exc' = "") =>
           /\ RowsKept
           /\ Len(NewRows) = Len(userlist)
           /\ \A i \in 1..Len(userlist) :
                /\ NewRows[i].groupname = groupname
                /\ NewRows[i].member = userlist[i] ]_vars

\* C19 witness: the line just sent was a 'cn: ' line with spaces around its
\* value, no empty line was sent before it, and the two members accumulated
\* before it are still in userlist under its name
C19_Witness ==
  /\ exc = ""
  /\ HasPrefix(ldif_line, GroupIdentityPrefix)
  /\ ldif_line[5] = " "
  /\ groupname = << "h", "_", "b", "_", "q", "_", "s" >>
  /\ Len(userlist) = 2
  /\ last_blank = 0
  /\ nsent >= 4

\* C20 (abort on first error, no partial report): once a send has raised
\* an error nothing changes any more: no further line is sent, no row is
\* appended and nothing is printed; the send that raises appends no row;
\* and rows are printed only when no error was raised and the last send was
\* the empty line sent after the input, and then all of report_rows is
\* printed.
C20_AbortOnFirstError ==
  [][ /\ exc # "" => UNCHANGED << nsent, report_rows, printed, exc >>
      /\ exc' # "" => (printed' = << >> /\ report_rows' = report_rows)
      /\ printed' # printed =>
           /\ exc = "" /\ exc' = ""
           /\ ldif_line = << >>
           /\ last_blank = nsent
           /\ nsent' = nsent
           /\ printed' = report_rows ]_vars

\* C20 witness: a send raised after rows of an earlier block had been
\* appended, and nothing was printed
C20_Witness ==
  /\ exc # ""
  /\ pc = "aborted"
  /\ Len(report_rows) >= 2
  /\ printed = << >>

====
